---- MODULE Spec2Model ----
(***************************************************************************)
(* Model of rembg_clean/cli.py: the edge defringe engine                   *)
(* (defringe_white_v2) with its float32 arithmetic, and the sequential     *)
(* batch loop of main.                                                     *)
(***************************************************************************)
EXTENDS Integers, Sequences, FiniteSets, TLC

(***************************************************************************)
(* numpy float32 (IEEE-754 binary32, round to nearest even).               *)
(* A finite value is [s, m, e] = (-1)^s * m * 2^e with m = 0 or            *)
(* 2^23 <= m < 2^24.  Mantissa products are split in 12-bit limbs so that  *)
(* no intermediate exceeds 2^28.                                           *)
(***************************************************************************)
F32Zero == [s |-> 0, m |-> 0, e |-> 0]

RECURSIVE BitLen(_)
BitLen(n) == IF n = 0 THEN 0 ELSE 1 + BitLen(n \div 2)

\* Round the exact value (M + f) * 2^E, 0 <= f < 1, f # 0 iff st = 1, to float32.
F32Round(s, M, E, st) ==
  IF M = 0 THEN F32Zero
  ELSE LET k == BitLen(M) - 24 IN
       IF k <= 0
       THEN [s |-> s, m |-> M * 2^(0 - k), e |-> E + k]
       ELSE LET q    == M \div 2^k
                r    == M % 2^k
                half == 2^(k - 1)
                up   == (r > half) \/ (r = half /\ (st = 1 \/ q % 2 = 1))
                q1   == IF up THEN q + 1 ELSE q
            IN  IF q1 = 2^24
                THEN [s |-> s, m |-> 2^23, e |-> E + k + 1]
                ELSE [s |-> s, m |-> q1, e |-> E + k]

\* Conversion of an integer |n| < 2^24 (exact).
F32Int(n) == IF n < 0 THEN F32Round(1, 0 - n, 0, 0) ELSE F32Round(0, n, 0, 0)

F32Neg(x) == IF x.m = 0 THEN x ELSE [x EXCEPT !.s = 1 - x.s]

F32Mul(x, y) ==
  IF x.m = 0 \/ y.m = 0 THEN F32Zero
  ELSE LET xh  == x.m \div 4096
           xl  == x.m % 4096
           yh  == y.m \div 4096
           yl  == y.m % 4096
           mid == xh * yl + xl * yh
           lo0 == xl * yl + (mid % 4096) * 4096
           Lo  == lo0 % 2^24
           Hi  == xh * yh + mid \div 4096 + lo0 \div 2^24
       IN  F32Round((x.s + y.s) % 2, Hi * 4 + Lo \div 2^22, x.e + y.e + 22,
                    IF Lo % 2^22 # 0 THEN 1 ELSE 0)

RECURSIVE LongDiv(_, _, _, _)
\* n further quotient bits of rem / d; result <<quotient, remainder>>.
LongDiv(q, rem, d, n) ==
  IF n = 0 THEN <<q, rem>>
  ELSE IF 2 * rem >= d THEN LongDiv(2 * q + 1, 2 * rem - d, d, n - 1)
                       ELSE LongDiv(2 * q, 2 * rem, d, n - 1)

\* y is never zero where the program divides (safe_a >= 1e-6, 255.0).
F32Div(x, y) ==
  IF x.m = 0 THEN F32Zero
  ELSE LET qr == LongDiv(x.m \div y.m, x.m % y.m, y.m, 26)
       IN  F32Round((x.s + y.s) % 2, qr[1], x.e - y.e - 26,
                    IF qr[2] # 0 THEN 1 ELSE 0)

F32Add(x, y) ==
  IF x.m = 0 THEN y
  ELSE IF y.m = 0 THEN x
  ELSE LET big == IF x.e >= y.e THEN x ELSE y
           sml == IF x.e >= y.e THEN y ELSE x
           d   == big.e - sml.e
           B   == big.m * 8
           S0  == IF d > 27 THEN 0 ELSE (sml.m * 8) \div 2^d
           st  == IF d > 27 THEN 1
                  ELSE IF (sml.m * 8) % 2^d # 0 THEN 1 ELSE 0
           E   == big.e - 3
       IN  IF big.s = sml.s THEN F32Round(big.s, B + S0, E, st)
           ELSE IF B >= S0 + st THEN F32Round(big.s, B - S0 - st, E, st)
           ELSE F32Round(sml.s, S0 - B, E, 0)

F32Sub(x, y) == F32Add(x, F32Neg(y))

MagLt(x, y) ==
  IF y.m = 0 THEN FALSE
  ELSE IF x.m = 0 THEN TRUE
  ELSE x.e < y.e \/ (x.e = y.e /\ x.m < y.m)

F32Lt(x, y) ==
  IF x.s = 0 /\ y.s = 0 THEN MagLt(x, y)
  ELSE IF x.s = 1 /\ y.s = 1 THEN MagLt(y, x)
  ELSE x.s = 1

\* np.clip
F32Clip(x, lo, hi) == IF F32Lt(x, lo) THEN lo ELSE IF F32Lt(hi, x) THEN hi ELSE x

\* A Python float literal n/d used against a float32 array (weak scalar).
F32Rat(n, d) == F32Div(F32Int(n), F32Int(d))

\* Integer part of |x| (truncation toward zero), for |x| < 2^24.
F32Trunc(x) ==
  IF x.m = 0 THEN 0
  ELSE IF x.e >= 0 THEN x.m * 2^x.e
  ELSE IF 0 - x.e > 24 THEN 0
  ELSE x.m \div 2^(0 - x.e)

\* astype(np.uint8): truncation; a value outside (-1, 256) has no defined
\* result in the C cast, so any sample may come out.
CastU8(x) ==
  IF F32Lt(x, F32Int(256)) /\ (x.s = 0 \/ F32Trunc(x) = 0)
  THEN {F32Trunc(x)}
  ELSE 0 .. 255

(***************************************************************************)
(* defringe_white_v2, per pixel.  A pixel is <<R, G, B, A>> of 8-bit       *)
(* samples; a configuration is [bg, a_low, a_high, strength, erode] where  *)
(* the Python floats a_low, a_high and strength are the literals n/d,      *)
(* written <<n, d>>.                                                       *)
(***************************************************************************)
MaxSample == 255

\* a = arr[..., 3] / 255.0
NormAlpha(A) == F32Div(F32Int(A), F32Int(MaxSample))

\* A band test that takes in the thresholds themselves.
EdgeMaskInclusive(a, cfg) ==
  /\ ~F32Lt(a, F32Rat(cfg.a_low[1], cfg.a_low[2]))
  /\ ~F32Lt(F32Rat(cfg.a_high[1], cfg.a_high[2]), a)

\* edge = (a > a_low) & (a < a_high)
EdgeMask(a, cfg) ==
  /\ F32Lt(F32Rat(cfg.a_low[1], cfg.a_low[2]), a)
  /\ F32Lt(a, F32Rat(cfg.a_high[1], cfg.a_high[2]))

\* safe_a = np.clip(a, 1e-6, 1.0)
SafeAlpha(a) == F32Clip(a, F32Rat(1, 1000000), F32Int(1))

\* fg = clip((rgb - bg * (1.0 - safe_a)) / safe_a, 0, 255)
Unmix(c, sa, bg) ==
  F32Clip(F32Div(F32Sub(c, F32Mul(F32Int(bg), F32Sub(F32Int(1), sa))), sa),
          F32Zero, F32Int(MaxSample))

\* A blend with its two weights exchanged.
BlendSwapped(c, fg, st) ==
  F32Add(F32Mul(F32Rat(st[1], st[2]), c), F32Mul(F32Rat(st[2] - st[1], st[2]), fg))

\* (1.0 - strength) * rgb[edge] + strength * fg[edge]
Blend(c, fg, st) ==
  F32Add(F32Mul(F32Rat(st[2] - st[1], st[2]), c), F32Mul(F32Rat(st[1], st[2]), fg))

\* An erosion that is not clamped.
ErodeAlphaUnclamped(a, n) == F32Sub(a, F32Rat(8 * n, 100))

\* np.clip(a_new[edge] - (0.08 * erode_alpha_px), 0, 1)
ErodeAlpha(a, n) == F32Clip(F32Sub(a, F32Rat(8 * n, 100)), F32Zero, F32Int(1))

\* The float32 row np.dstack([rgb_new, a_new * 255.0]) of one pixel.
PixelOut(p, cfg) ==
  LET a    == NormAlpha(p[4])
      edge == EdgeMask(a, cfg)
      sa   == SafeAlpha(a)
      ch(i) == IF edge THEN Blend(F32Int(p[i]), Unmix(F32Int(p[i]), sa, cfg.bg), cfg.strength)
               ELSE F32Int(p[i])
      a_new == IF cfg.erode > 0 /\ edge THEN ErodeAlpha(a, cfg.erode) ELSE a
  IN  <<ch(1), ch(2), ch(3), F32Mul(a_new, F32Int(MaxSample))>>

(***************************************************************************)
(* State.  d_* : one call of defringe_white_v2.  The rest: one run of main.*)
(***************************************************************************)
VARIABLES
  png_in,      \* the input file: [valid, pixels]
  cfg,         \* bg, a_low, a_high, strength, erode_alpha_px
  d_pc,        \* "call", "decoded", "computed", "returned", "raised"
  arr,         \* the decoded samples (line 25)
  out,         \* the float32 array of line 45
  png_out,     \* the destination file: [written, pixels]
  folder_ok,   \* in_dir.is_dir()
  tree,        \* the files under in_dir, in rglob order
  skip_existing,
  genv,        \* --gimp, GIMP_EXECUTABLE, the paths that exist, the exes that run
  gimp_exec,
  allow_xcf,
  files,       \* the discovered files (line 171)
  idx,         \* position of the loop of line 177 in files
  m_pc,        \* position of main
  status,      \* per discovered file: "none", "SKIP", "OK", "ERR"
  log,         \* the steps taken so far, <<file index, step>>
  disk0,       \* the output paths before the run
  disk,        \* per output path: Absent, Old or SavedBy(file index)
  writes,      \* per output path: the saves of this run
  ret          \* <<>>, or <<v>> once main has returned v

dvars == <<png_in, cfg, d_pc, arr, out, png_out>>
mvars == <<folder_ok, tree, skip_existing, genv, gimp_exec, allow_xcf, files, idx,
           m_pc, status, log, disk0, disk, writes, ret>>
vars == <<dvars, mvars>>

MaxErode == 2
MaxFiles == 2

(***************************************************************************)
(* defringe_white_v2 as a state machine.                                   *)
(***************************************************************************)
Grey(v, A) == <<v, v, v, A>>

\* Input pixels: every alpha for one grey, key alphas for other colours.
KeyAlphas == {0, 1, 17, 26, 51, 128, 153, 254, 255}
Pixels ==
  {Grey(200, A) : A \in 0 .. MaxSample}
    \cup {Grey(10, A) : A \in KeyAlphas}
    \cup {<<239, 255, 0, A>> : A \in KeyAlphas}

Images ==
  {<<p>> : p \in Pixels}
    \cup {<<p, q>> : p, q \in {Grey(200, 128), Grey(10, 26), <<239, 255, 0, 255>>}}

Bands == {<<<<1, 20>>, <<19, 20>>>>, <<<<9, 10>>, <<1, 10>>>>, <<<<1, 5>>, <<3, 5>>>>}
Strengths == {<<0, 1>>, <<1, 2>>, <<1, 1>>}
Backgrounds == {0, MaxSample}

Configs ==
  {[bg |-> b, a_low |-> band[1], a_high |-> band[2], strength |-> s, erode |-> n] :
     b \in Backgrounds, band \in Bands, s \in Strengths, n \in 0 .. MaxErode}

\* main is not running
MIdle ==
  /\ folder_ok = FALSE
  /\ tree = <<>>
  /\ skip_existing = FALSE
  /\ genv = <<>>
  /\ gimp_exec = <<>>
  /\ allow_xcf = FALSE
  /\ files = <<>>
  /\ idx = 0
  /\ m_pc = "idle"
  /\ status = <<>>
  /\ log = <<>>
  /\ disk0 = <<>>
  /\ disk = <<>>
  /\ writes = <<>>
  /\ ret = <<>>

DInit ==
  /\ cfg \in Configs
  /\ png_in \in {[valid |-> TRUE, pixels |-> im] : im \in Images}
                  \cup {[valid |-> FALSE, pixels |-> <<>>]}
  /\ d_pc = "call"
  /\ arr = <<>>
  /\ out = <<>>
  /\ png_out = [written |-> FALSE, pixels |-> <<>>]
  /\ MIdle

\* line 24-25: Image.open(png_in).convert("RGBA"), np.array(im)
DOpen ==
  /\ d_pc = "call"
  /\ png_in.valid
  /\ arr' = png_in.pixels
  /\ d_pc' = "decoded"
  /\ UNCHANGED <<png_in, cfg, out, png_out, mvars>>

\* A failing open that has already created the destination file.
DOpenFailTruncates ==
  /\ d_pc = "call"
  /\ ~png_in.valid
  /\ d_pc' = "raised"
  /\ png_out' = [written |-> TRUE, pixels |-> <<>>]
  /\ UNCHANGED <<png_in, cfg, arr, out, mvars>>

\* line 24: Image.open raises on bytes that are not an image
DOpenFail ==
  /\ d_pc = "call"
  /\ ~png_in.valid
  /\ d_pc' = "raised"
  /\ UNCHANGED <<png_in, cfg, arr, out, png_out, mvars>>

\* lines 27-45
DCompute ==
  /\ d_pc = "decoded"
  /\ out' = [i \in 1 .. Len(arr) |-> PixelOut(arr[i], cfg)]
  /\ d_pc' = "computed"
  /\ UNCHANGED <<png_in, cfg, arr, png_out, mvars>>

\* The uint8 images out.astype(np.uint8) can be.
Quantized(o) ==
  LET undef == {ik \in (1 .. Len(o)) \X (1 .. 4) :
                  Cardinality(CastU8(o[ik[1]][ik[2]])) # 1}
  IN  {[i \in 1 .. Len(o) |->
          [k \in 1 .. 4 |-> IF <<i, k>> \in undef THEN g[<<i, k>>]
                            ELSE F32Trunc(o[i][k])]] :
       g \in [undef -> 0 .. MaxSample]}

\* line 46: Image.fromarray(out.astype(np.uint8), "RGBA").save(png_out)
DSave ==
  /\ d_pc = "computed"
  /\ \E im \in Quantized(out) : png_out' = [written |-> TRUE, pixels |-> im]
  /\ d_pc' = "returned"
  /\ UNCHANGED <<png_in, cfg, arr, out, mvars>>

DNext == DOpen \/ DOpenFail \/ DCompute \/ DSave

SpecDefringe == DInit /\ [][DNext]_vars

(***************************************************************************)
(* Claims about defringe_white_v2, checked under SpecDefringe.             *)
(***************************************************************************)
\* The band of the claims, in exact arithmetic on the sample A and the
\* literals n/d: alpha = A/255 <= a_low or alpha >= a_high.
OutsideBand(A, c) ==
  \/ A * c.a_low[2] <= MaxSample * c.a_low[1]
  \/ A * c.a_high[2] >= MaxSample * c.a_high[1]

InsideBand(A, c) == ~OutsideBand(A, c)

\* a_low >= a_high
InvertedBand(c) == c.a_low[1] * c.a_high[2] >= c.a_high[1] * c.a_low[2]

\* C1: a call with a_low >= a_high (e.g. 0.9 and 0.1) fails with InvalidConfig
\* and produces no output image.
C1_InvalidConfigRejected ==
  InvertedBand(cfg) => (d_pc # "returned" /\ ~png_out.written)

\* C2: every pixel whose alpha is <= a_low or >= a_high keeps its input R, G
\* and B exactly, and with erode_alpha_px = 0 its input alpha as well.
C2_NonEdgeUntouched ==
  d_pc = "returned" =>
    \A i \in 1 .. Len(png_in.pixels) :
      OutsideBand(png_in.pixels[i][4], cfg) =>
        /\ \A k \in 1 .. 3 : png_out.pixels[i][k] = png_in.pixels[i][k]
        /\ cfg.erode = 0 => png_out.pixels[i][4] = png_in.pixels[i][4]

\* A pixel on the band's lower threshold (alpha 51/255 = a_low = 1/5) came out
\* as it went in, with strength 1 and no erosion.
C2_Witness ==
  /\ d_pc = "returned"
  /\ cfg.strength = <<1, 1>> /\ cfg.erode = 0 /\ cfg.a_low = <<1, 5>>
  /\ \E i \in 1 .. Len(png_in.pixels) :
       /\ png_in.pixels[i][4] = 51
       /\ png_out.pixels[i] = png_in.pixels[i]

\* C3: with strength = 0 the output R, G and B equal the input R, G and B for
\* every pixel, edge-band pixels included, whatever bg, the band and the erosion.
C3_StrengthZeroIdentity ==
  (d_pc = "returned" /\ cfg.strength = <<0, 1>>) =>
    \A i \in 1 .. Len(png_in.pixels) : \A k \in 1 .. 3 :
      png_out.pixels[i][k] = png_in.pixels[i][k]

\* An edge-band pixel went through with strength 0, bg 0 and erosion on.
C3_Witness ==
  /\ d_pc = "returned"
  /\ cfg.strength = <<0, 1>> /\ cfg.bg = 0 /\ cfg.erode > 0
  /\ \E i \in 1 .. Len(png_in.pixels) :
       /\ InsideBand(png_in.pixels[i][4], cfg)
       /\ png_out.pixels[i][4] < png_in.pixels[i][4]
       /\ \A k \in 1 .. 3 : png_out.pixels[i][k] = png_in.pixels[i][k]

\* clamp((observed - bg*(1-alpha))/alpha, 0, 255) truncated, alpha = A/255, in
\* exact arithmetic: (255*observed - bg*(255-A)) / A.
ExactUnmix(c, A, bg) ==
  LET num == MaxSample * c - bg * (MaxSample - A)
  IN  IF num <= 0 THEN 0
      ELSE IF num >= MaxSample * A THEN MaxSample
      ELSE num \div A

\* C4: with strength = 1 every edge-band pixel gets, per channel,
\* clamp((observed - bg*(1-alpha))/alpha, 0, 255) truncated to an 8-bit sample.
C4_FullUnmix ==
  (d_pc = "returned" /\ cfg.strength = <<1, 1>>) =>
    \A i \in 1 .. Len(png_in.pixels) :
      InsideBand(png_in.pixels[i][4], cfg) =>
        \A k \in 1 .. 3 :
          png_out.pixels[i][k] =
            ExactUnmix(png_in.pixels[i][k], png_in.pixels[i][4], cfg.bg)

\* The output alpha sample of pixel p under configuration c.
AlphaOut(p, c) == F32Trunc(PixelOut(p, c)[4])

\* C5: for an edge-band pixel the output alpha does not increase when
\* erode_alpha_px grows by one and is never below 0; erode_alpha_px = 0 leaves
\* every alpha unchanged; the alpha of a pixel outside the band is unchanged
\* for any erode_alpha_px.
C5_ErosionMonotone ==
  d_pc = "returned" =>
    \A i \in 1 .. Len(png_in.pixels) :
      LET A == png_in.pixels[i][4]
          o == png_out.pixels[i][4]
      IN  /\ InsideBand(A, cfg) =>
               /\ out[i][4].s = 0
               /\ o <= A
               /\ AlphaOut(png_in.pixels[i], [cfg EXCEPT !.erode = @ + 1]) <= o
          /\ cfg.erode = 0 => o = A
          /\ OutsideBand(A, cfg) => o = A

\* An edge-band pixel lost part of its alpha, and one more unit of erosion
\* would take more.
C5_Witness ==
  /\ d_pc = "returned"
  /\ cfg.erode = 1
  /\ \E i \in 1 .. Len(png_in.pixels) :
       /\ InsideBand(png_in.pixels[i][4], cfg)
       /\ 0 < png_out.pixels[i][4]
       /\ png_out.pixels[i][4] < png_in.pixels[i][4]
       /\ AlphaOut(png_in.pixels[i], [cfg EXCEPT !.erode = 2]) < png_out.pixels[i][4]

UpperCase == <<"A", "B", "C", "D", "E", "F", "G", "H", "I", "J", "K", "L", "M", "N", "O", "P", "Q", "R", "S", "T", "U", "V", "W", "X", "Y", "Z">>
LowerCase == <<"a", "b", "c", "d", "e", "f", "g", "h", "i", "j", "k", "l", "m", "n", "o", "p", "q", "r", "s", "t", "u", "v", "w", "x", "y", "z">>

LowerChar(c) ==
  IF \E k \in 1 .. Len(UpperCase) : UpperCase[k] = c
  THEN LowerCase[CHOOSE k \in 1 .. Len(UpperCase) : UpperCase[k] = c]
  ELSE c

\* str.lower()
StrLower(s) == [k \in 1 .. Len(s) |-> LowerChar(s[k])]

\* sub in s
Contains(s, sub) ==
  \E k \in 1 .. Len(s) - Len(sub) + 1 : SubSeq(s, k, k + Len(sub) - 1) = sub

\* s.endswith(suf)
EndsWith(s, suf) ==
  Len(s) >= Len(suf) /\ SubSeq(s, Len(s) - Len(suf) + 1, Len(s)) = suf

(***************************************************************************)
(* GIMP discovery.                                                         *)
(***************************************************************************)
GimpProbe ==
  <<<<"g", "i", "m", "p", "-", "c", "o", "n", "s", "o", "l", "e", "-", "3", ".", "0", ".", "e", "x", "e">>,
    <<"g", "i", "m", "p", "-", "c", "o", "n", "s", "o", "l", "e", "-", "2", ".", "1", "0", ".", "e", "x", "e">>,
    <<"g", "i", "m", "p", "-", "c", "o", "n", "s", "o", "l", "e", ".", "e", "x", "e">>,
    <<"g", "i", "m", "p", "-", "3", ".", "e", "x", "e">>,
    <<"g", "i", "m", "p", ".", "e", "x", "e">>>>

\* The first of --gimp, GIMP_EXECUTABLE and the probed names that is there;
\* <<>> is None.
find_gimp_executable(user_path, e) ==
  IF user_path # <<>> /\ user_path \in e.exists THEN user_path
  ELSE IF e.env_path # <<>> /\ e.env_path \in e.exists THEN e.env_path
  ELSE IF \E k \in 1 .. Len(GimpProbe) : GimpProbe[k] \in e.runs
  THEN GimpProbe[CHOOSE k \in 1 .. Len(GimpProbe) :
                   /\ GimpProbe[k] \in e.runs
                   /\ \A j \in 1 .. k - 1 : GimpProbe[j] \notin e.runs]
  ELSE <<>>

\* A test that forgets lower().
is_store_gimp_cased(g) ==
  \/ Contains(g, <<"w", "i", "n", "d", "o", "w", "s", "a", "p", "p", "s">>)
  \/ EndsWith(g, <<"g", "i", "m", "p", "-", "3", ".", "e", "x", "e">>)

is_store_gimp(g) ==
  LET p == StrLower(g)
  IN  \/ Contains(p, <<"w", "i", "n", "d", "o", "w", "s", "a", "p", "p", "s">>)
      \/ EndsWith(p, <<"g", "i", "m", "p", "-", "3", ".", "e", "x", "e">>)

PathStore == <<"/", "W", "i", "n", "d", "o", "w", "s", "A", "p", "p", "s", "/", "g", "i", "m", "p", ".", "e", "x", "e">>
PathHeadless == <<"/", "o", "p", "t", "/", "g", "i", "m", "p", "-", "c", "o", "n", "s", "o", "l", "e", ".", "e", "x", "e">>
PathUpper3 == <<"/", "o", "p", "t", "/", "G", "I", "M", "P", "-", "3", ".", "E", "X", "E">>
PathGone == <<"/", "g", "o", "n", "e", "/", "g", "i", "m", "p", ".", "e", "x", "e">>

GimpEnvs ==
  {[user_path |-> <<>>, env_path |-> <<>>, exists |-> {}, runs |-> {}],
   [user_path |-> PathStore, env_path |-> <<>>, exists |-> {PathStore}, runs |-> {}],
   [user_path |-> PathGone, env_path |-> PathHeadless, exists |-> {PathHeadless},
    runs |-> {GimpProbe[4]}],
   [user_path |-> <<>>, env_path |-> PathGone, exists |-> {}, runs |-> {GimpProbe[4], GimpProbe[5]}],
   [user_path |-> <<>>, env_path |-> <<>>, exists |-> {}, runs |-> {GimpProbe[3], GimpProbe[4]}],
   [user_path |-> PathUpper3, env_path |-> PathHeadless, exists |-> {PathUpper3, PathHeadless},
    runs |-> {}]}

(***************************************************************************)
(* main.                                                                   *)
(***************************************************************************)
SUPPORTED_RASTER == {<<".", "p", "n", "g">>, <<".", "j", "p", "g">>, <<".", "j", "p", "e", "g">>}
SUPPORTED_ALL == SUPPORTED_RASTER \cup {<<".", "x", "c", "f">>}

\* The files a folder can hold: [dir, stem, suffix].
Entries ==
  {[dir |-> ".", stem |-> "a", suffix |-> <<".", "p", "n", "g">>],
   [dir |-> ".", stem |-> "a", suffix |-> <<".", "J", "P", "G">>],
   [dir |-> ".", stem |-> "a", suffix |-> <<".", "x", "c", "f">>],
   [dir |-> ".", stem |-> "b", suffix |-> <<".", "X", "C", "F">>],
   [dir |-> "sub", stem |-> "a", suffix |-> <<".", "j", "p", "e", "g">>],
   [dir |-> ".", stem |-> "notes", suffix |-> <<".", "t", "x", "t">>]}

RECURSIVE Listings(_)
\* The orders rglob can list up to n distinct entries in.
Listings(n) ==
  IF n = 0 THEN {<<>>}
  ELSE LET shorter == Listings(n - 1)
       IN  shorter \cup
           UNION {{Append(s, x) : x \in Entries \ {s[k] : k \in 1 .. Len(s)}} :
                    s \in {t \in shorter : Len(t) = n - 1}}

IsXcf(p) == StrLower(p.suffix) = <<".", "x", "c", "f">>

\* out_dir / rel.parent / (p.stem + "_clean.png")
out_path(p) == <<p.dir, p.stem>>

OutPaths == {out_path(p) : p \in Entries}

\* p.is_file() and p.suffix.lower() in SUPPORTED_ALL
Supported(p) == StrLower(p.suffix) \in SUPPORTED_ALL

\* An output path holds nothing, a file from before the run, or the output saved
\* for the discovered file by.
Absent == [state |-> "absent", by |-> 0]
Old == [state |-> "old", by |-> 0]
SavedBy(k) == [state |-> "saved", by |-> k]

\* The destination folder before the run: nothing there, or an a_clean.png.
DiskStarts ==
  {[q \in OutPaths |-> IF q \in old THEN Old ELSE Absent] :
     old \in {{}, {<<".", "a">>}}}

\* defringe_white_v2 is not running
DIdle ==
  /\ png_in = [valid |-> FALSE, pixels |-> <<>>]
  /\ cfg = <<>>
  /\ d_pc = "idle"
  /\ arr = <<>>
  /\ out = <<>>
  /\ png_out = [written |-> FALSE, pixels |-> <<>>]

MInit ==
  /\ folder_ok \in BOOLEAN
  /\ tree \in (IF folder_ok THEN Listings(MaxFiles) ELSE {<<>>})
  /\ skip_existing \in BOOLEAN
  /\ genv \in GimpEnvs
  /\ disk0 \in DiskStarts
  /\ disk = disk0
  /\ writes = [q \in OutPaths |-> 0]
  /\ gimp_exec = <<>>
  /\ allow_xcf = FALSE
  /\ files = <<>>
  /\ idx = 0
  /\ m_pc = "start"
  /\ status = <<>>
  /\ log = <<>>
  /\ ret = <<>>
  /\ DIdle

\* lines 135-142
MStart ==
  /\ m_pc = "start"
  /\ IF folder_ok
     THEN m_pc' = "gimp" /\ ret' = ret
     ELSE m_pc' = "returned" /\ ret' = <<1>>
  /\ UNCHANGED <<folder_ok, tree, skip_existing, genv, gimp_exec, allow_xcf, files,
                 idx, status, log, disk0, disk, writes, dvars>>

\* lines 144-166
MGimp ==
  /\ m_pc = "gimp"
  /\ gimp_exec' = find_gimp_executable(genv.user_path, genv)
  /\ allow_xcf' = (gimp_exec' # <<>> /\ ~is_store_gimp(gimp_exec'))
  /\ m_pc' = "scan"
  /\ UNCHANGED <<folder_ok, tree, skip_existing, genv, files, idx, status, log, disk0,
                 disk, writes, ret, dvars>>

\* lines 168-175
MScan ==
  /\ m_pc = "scan"
  /\ files' = SelectSeq(tree, Supported)
  /\ status' = [k \in 1 .. Len(files') |-> "none"]
  /\ IF files' = <<>>
     THEN m_pc' = "returned" /\ ret' = <<0>> /\ idx' = idx
     ELSE m_pc' = "top" /\ ret' = ret /\ idx' = 1
  /\ UNCHANGED <<folder_ok, tree, skip_existing, genv, gimp_exec, allow_xcf, log,
                 disk0, disk, writes, dvars>>

\* An end of file that leaves the loop on [ERR].
EndFileAbortsOnErr(st, evs) ==
  /\ status' = [status EXCEPT ![idx] = st]
  /\ log' = log \o evs
  /\ IF idx = Len(files) \/ st = "ERR"
     THEN m_pc' = "returned" /\ ret' = <<0>> /\ idx' = idx
     ELSE m_pc' = "top" /\ ret' = ret /\ idx' = idx + 1

\* The file at idx ends with st after the steps evs: the next iteration of the
\* loop of line 177, or line 237 after the last file.
EndFile(st, evs) ==
  /\ status' = [status EXCEPT ![idx] = st]
  /\ log' = log \o evs
  /\ IF idx = Len(files)
     THEN m_pc' = "returned" /\ ret' = <<0>> /\ idx' = idx
     ELSE m_pc' = "top" /\ ret' = ret /\ idx' = idx + 1

\* lines 178-180
MSkipXcf ==
  /\ m_pc = "top"
  /\ IsXcf(files[idx]) /\ ~allow_xcf
  /\ EndFile("SKIP", <<<<idx, "skip_xcf">>>>)
  /\ UNCHANGED <<folder_ok, tree, skip_existing, genv, gimp_exec, allow_xcf, files,
                 disk0, disk, writes, dvars>>

\* lines 182-188
MSkipExisting ==
  /\ m_pc = "top"
  /\ ~(IsXcf(files[idx]) /\ ~allow_xcf)
  /\ skip_existing /\ disk[out_path(files[idx])] # Absent
  /\ EndFile("SKIP", <<<<idx, "skip_existing">>>>)
  /\ UNCHANGED <<folder_ok, tree, skip_existing, genv, gimp_exec, allow_xcf, files,
                 disk0, disk, writes, dvars>>

\* A start that does not look at --skip-existing.
MStartFileUnchecked ==
  /\ m_pc = "top"
  /\ ~(IsXcf(files[idx]) /\ ~allow_xcf)
  /\ m_pc' = IF IsXcf(files[idx]) THEN "export" ELSE "read"
  /\ log' = Append(log, <<idx, "start">>)
  /\ UNCHANGED <<folder_ok, tree, skip_existing, genv, gimp_exec, allow_xcf, files,
                 idx, status, disk0, disk, writes, ret, dvars>>

\* lines 190-195
MStartFile ==
  /\ m_pc = "top"
  /\ ~(IsXcf(files[idx]) /\ ~allow_xcf)
  /\ ~(skip_existing /\ disk[out_path(files[idx])] # Absent)
  /\ m_pc' = IF IsXcf(files[idx]) THEN "export" ELSE "read"
  /\ log' = Append(log, <<idx, "start">>)
  /\ UNCHANGED <<folder_ok, tree, skip_existing, genv, gimp_exec, allow_xcf, files,
                 idx, status, disk0, disk, writes, ret, dvars>>

\* A step of the try block of lines 190-235 that writes no output: it returns,
\* or it raises and line 235 reports [ERR].
Step(at, name, then) ==
  /\ m_pc = at
  /\ \E ok \in BOOLEAN :
       IF ok
       THEN /\ m_pc' = then
            /\ log' = Append(log, <<idx, name>>)
            /\ UNCHANGED <<idx, status, ret>>
       ELSE EndFile("ERR", <<<<idx, name>>, <<idx, "ERR">>>>)
  /\ UNCHANGED <<folder_ok, tree, skip_existing, genv, gimp_exec, allow_xcf, files,
                 disk0, disk, writes, dvars>>

\* lines 196-201: xcf_to_png (lines 84-109) raises on a timeout or a failed GIMP
MExport == Step("export", "export", "read")

\* A read that hands its bytes straight to the defringe step.
MReadSkipsRemoval == Step("read", "read", "defringe")

\* lines 203-207
MRead == Step("read", "read", "remove")

\* lines 209-212
MRemove == Step("remove", "remove", "tmp")

\* lines 214-218
MWriteTmp == Step("tmp", "tmp", "defringe")

\* lines 220-232: defringe_white_v2 saves png_out as its last statement, or raises
\* before it
MDefringe ==
  /\ m_pc = "defringe"
  /\ \E ok \in BOOLEAN :
       IF ok
       THEN /\ disk' = [disk EXCEPT ![out_path(files[idx])] = SavedBy(idx)]
            /\ writes' = [writes EXCEPT ![out_path(files[idx])] = @ + 1]
            /\ EndFile("OK", <<<<idx, "defringe">>, <<idx, "write">>, <<idx, "OK">>>>)
       ELSE /\ UNCHANGED <<disk, writes>>
            /\ EndFile("ERR", <<<<idx, "defringe">>, <<idx, "ERR">>>>)
  /\ UNCHANGED <<folder_ok, tree, skip_existing, genv, gimp_exec, allow_xcf, files,
                 disk0, dvars>>

MNext ==
  \/ MStart \/ MGimp \/ MScan
  \/ MSkipXcf \/ MSkipExisting \/ MStartFile
  \/ MExport \/ MRead \/ MRemove \/ MWriteTmp \/ MDefringe

Spec == MInit /\ [][MNext]_vars

(***************************************************************************)
(* Claims about main, checked under Spec.                                  *)
(***************************************************************************)
Terminal == {"OK", "ERR", "skip_xcf", "skip_existing"}

StepRank(step) ==
  CASE step = "start" -> 0
    [] step = "export" -> 1
    [] step = "read" -> 2
    [] step = "remove" -> 3
    [] step = "tmp" -> 4
    [] step = "defringe" -> 5
    [] step = "write" -> 6
    [] OTHER -> 7

Count(k, step) == Cardinality({j \in 1 .. Len(log) : log[j] = <<k, step>>})
Has(k, step) == \E j \in 1 .. Len(log) : log[j] = <<k, step>>

\* Steps of one file follow the pipeline order, and a file's first step comes
\* right after the previous file's OK, SKIP or ERR.
Sequential ==
  /\ log # <<>> => log[1][1] = 1
  /\ \A j \in 1 .. Len(log) - 1 :
       IF log[j][1] = log[j + 1][1]
       THEN log[j][2] \notin Terminal /\ StepRank(log[j][2]) < StepRank(log[j + 1][2])
       ELSE log[j][2] \in Terminal /\ log[j + 1][1] = log[j][1] + 1

\* No step of the pipeline runs without the one before it.
PipelineOrder(k) ==
  /\ Has(k, "write") => Has(k, "defringe")
  /\ Has(k, "defringe") => Has(k, "remove")
  /\ Has(k, "remove") => Has(k, "read")
  /\ Has(k, "read") => (Has(k, "export") <=> IsXcf(files[k]))
  /\ Has(k, "export") => IsXcf(files[k])
  /\ status[k] = "OK" <=> Has(k, "write")

\* C7 as stated: the defringe core is called once per discovered file.
C7_DefringeOncePerFile ==
  m_pc = "returned" => \A k \in 1 .. Len(files) : Count(k, "defringe") = 1

\* C7, amended: the loop is strictly sequential per file, the steps that run
\* for a file run in the order (export) -> read -> removal -> defringe -> write,
\* and the defringe core is called at most once per discovered file: once for a
\* file that ends OK, never for a skipped file or one that failed earlier.
C7_SequentialPipeline ==
  /\ Sequential
  /\ \A k \in 1 .. Len(files) :
       /\ PipelineOrder(k)
       /\ Count(k, "defringe") <= 1
       /\ status[k] = "OK" => Count(k, "defringe") = 1
       /\ status[k] = "SKIP" => Count(k, "defringe") = 0
       /\ (Has(k, "ERR") /\ ~Has(k, "remove")) => Count(k, "defringe") = 0

\* An exported .xcf and a raster file both went through the whole pipeline.
C7_Witness ==
  /\ m_pc = "returned"
  /\ \E j, k \in 1 .. Len(files) :
       /\ j < k
       /\ status[j] = "OK" /\ status[k] = "OK"
       /\ IsXcf(files[j]) /\ ~IsXcf(files[k])

SamePath(j, k) == out_path(files[j]) = out_path(files[k])

\* With --skip-existing nothing is overwritten: an output that was there before
\* the run stays, each path is saved at most once, and a file that started had
\* no output at its turn.
SkipNeverOverwrites ==
  skip_existing =>
    /\ \A q \in OutPaths :
         /\ writes[q] <= 1
         /\ disk0[q] = Old => (disk[q] = Old /\ writes[q] = 0)
    /\ \A k \in 1 .. Len(files) :
         /\ Has(k, "start") =>
              /\ disk0[out_path(files[k])] = Absent
              /\ \A j \in 1 .. k - 1 : SamePath(j, k) => status[j] # "OK"
         /\ Has(k, "skip_existing") =>
              \A step \in {"start", "export", "read", "remove", "tmp", "defringe", "write"} :
                ~Has(k, step)

\* C9 as stated: without --skip-existing the later of two inputs with the same
\* output path overwrites the earlier output.
C9_LaterOverwrites ==
  /\ SkipNeverOverwrites
  /\ (m_pc = "returned" /\ ~skip_existing) =>
       \A j, k \in 1 .. Len(files) :
         (j < k /\ SamePath(j, k) /\ status[j] = "OK") =>
           disk[out_path(files[j])] # SavedBy(j)

\* C9, amended: with --skip-existing no output file is overwritten and each
\* output path is saved at most once; without it the later of two inputs with
\* the same output path overwrites the earlier output when the later one is
\* itself saved (a later input that ends in ERR leaves the earlier output).
C9_SkipExisting ==
  /\ SkipNeverOverwrites
  /\ (m_pc = "returned" /\ ~skip_existing) =>
       \A j, k \in 1 .. Len(files) :
         (j < k /\ SamePath(j, k) /\ status[j] = "OK" /\ status[k] = "OK") =>
           /\ disk[out_path(files[j])] # SavedBy(j)
           /\ writes[out_path(files[j])] >= 2

\* With --skip-existing the first of two inputs with one output path was
\* saved and the second skipped.
C9_Witness ==
  /\ m_pc = "returned" /\ skip_existing
  /\ \E j, k \in 1 .. Len(files) :
       /\ j < k /\ SamePath(j, k)
       /\ status[j] = "OK" /\ Has(k, "skip_existing")
       /\ disk[out_path(files[j])] = SavedBy(j)
       /\ writes[out_path(files[j])] = 1

\* The Store GIMPs among the executables of GimpEnvs: the path contains
\* "windowsapps" or ends in "gimp-3.exe", whatever the case of its letters.
StoreGimps == {PathStore, PathUpper3, GimpProbe[4]}

XcfAllowed == gimp_exec # <<>> /\ gimp_exec \notin StoreGimps

XcfSuffixes == {<<".", "x", "c", "f">>, <<".", "X", "C", "F">>}

\* C10: an .xcf file is exported and processed only with a GIMP that was found
\* and is not a Store GIMP; otherwise it is skipped, xcf_to_png is not invoked
\* and no output is written for it; raster files are processed whatever GIMP
\* is there.
C10_XcfGating ==
  m_pc \notin {"start", "gimp"} =>
    \A k \in 1 .. Len(files) :
      IF files[k].suffix \in XcfSuffixes
      THEN /\ (Has(k, "start") \/ Has(k, "export")) => XcfAllowed
           /\ Has(k, "skip_xcf") <=> (status[k] # "none" /\ ~XcfAllowed)
           /\ ~XcfAllowed =>
                /\ ~Has(k, "export") /\ ~Has(k, "write")
                /\ \A q \in OutPaths : disk[q] # SavedBy(k)
      ELSE /\ ~Has(k, "skip_xcf") /\ ~Has(k, "export")
           /\ status[k] # "none" => (Has(k, "start") \/ Has(k, "skip_existing"))

\* With a Store GIMP an .xcf file was skipped and a raster file saved.
C10_Witness ==
  /\ m_pc = "returned"
  /\ gimp_exec \in StoreGimps
  /\ \E j, k \in 1 .. Len(files) :
       /\ files[j].suffix \in XcfSuffixes /\ status[j] = "SKIP"
       /\ files[k].suffix \notin XcfSuffixes /\ status[k] = "OK"

====
